---- MODULE Spec2Model ----
(***************************************************************************)
(* Baselight -> Xytech import/export (project1_import_export_final.py) and *)
(* the stand-alone marked-row scanner (check_x.py).                        *)
(*                                                                         *)
(* Python strings are modelled as sequences of one-character strings, so   *)
(* that split, strip, startswith, endswith, str and int act on characters. *)
(* The character "SUP2" stands for U+00B2 (superscript two): str.isdigit   *)
(* accepts it, int() and the regex class \d do not.                        *)
(***************************************************************************)
EXTENDS Integers, Sequences, FiniteSets, TLC

VARIABLES
    pc,
    \* frames_to_segments
    frames, segments, singles, ranges,
    \* map_to_xytech / baselight_subpath
    baselight_folder, sub, mapped,
    \* parse_baselight_line
    line, folder, parsed,
    \* parse_xytech_locations, and main's xy_locations
    xytech_text, locations, xy_locations,
    \* main
    baselight_text, next_line, b_folder, corrected, out_folder,
    frames_by_folder, folder_order, baselight_lines_read,
    csv_rows, csv_rows_written, console,
    \* print_rows_with_x_third_col / check_x.py
    scanner, marked_exists, marked_rows, reader, header, line_no, found, printed

segVars == <<frames, segments, singles, ranges>>
mapVars == <<baselight_folder, sub, mapped>>
lineVars == <<line, folder, parsed>>
xyVars == <<xytech_text, locations>>
mainVars == <<baselight_text, next_line, b_folder, corrected, out_folder,
              frames_by_folder, folder_order, baselight_lines_read,
              csv_rows, csv_rows_written, console>>
scanVars == <<scanner, marked_exists, marked_rows, reader, header, line_no,
              found, printed>>

vars == <<pc, segVars, mapVars, lineVars, xyVars, xy_locations, mainVars, scanVars>>

\* ---------------------------------------------------------------- bounds
MaxFrame == 10
MaxLen == 4
MaxParts == 3
MaxLocs == 2
MaxTokens == 2
MaxXyLines == 4
MaxLines == 3
MaxRows == 3

\* Python's None; no string, and no sequence of characters, equals it
None == <<"<None>">>

\* the values of the variables a specification does not use
SegIdle == frames = <<>> /\ segments = <<>> /\ singles = 0 /\ ranges = 0
MapIdle == baselight_folder = <<>> /\ sub = <<>> /\ mapped = None
LineIdle == line = <<>> /\ folder = <<>> /\ parsed = <<>>
XyIdle == xytech_text = <<>> /\ locations = <<>>
MainIdle ==
    /\ baselight_text = <<>> /\ next_line = 1
    /\ b_folder = <<>> /\ corrected = None /\ out_folder = <<>>
    /\ frames_by_folder = <<>> /\ folder_order = <<>>
    /\ baselight_lines_read = 0
    /\ csv_rows = <<>> /\ csv_rows_written = 0 /\ console = <<>>
ScanIdle ==
    /\ scanner = "main" /\ marked_exists = FALSE /\ marked_rows = <<>>
    /\ reader = <<>> /\ header = None /\ line_no = 0 /\ found = FALSE
    /\ printed = <<>>

\* ------------------------------------------------------- string helpers
DecimalDigits == <<"0", "1", "2", "3", "4", "5", "6", "7", "8", "9">>

IsDecimal(c) == \E i \in 1..10 : DecimalDigits[i] = c

DigitValue(c) == (CHOOSE i \in 1..10 : DecimalDigits[i] = c) - 1

Range(s) == {s[i] : i \in 1..Len(s)}

\* str(n) for n >= 0
RECURSIVE Str(_)
Str(n) == IF n < 10 THEN <<DecimalDigits[n + 1]>>
          ELSE Str(n \div 10) \o <<DecimalDigits[(n % 10) + 1]>>

\* sorted(...) of a set of integers
RECURSIVE SortedSet(_)
SortedSet(S) == IF S = {} THEN <<>>
                ELSE LET m == CHOOSE x \in S : \A y \in S : x <= y
                     IN <<m>> \o SortedSet(S \ {m})

\* ----------------------------------------------------- Python strings
Whitespace == {" ", "\t"}

UpperLetters == <<"A", "B", "C", "D", "E", "F", "G", "H", "I", "J", "K", "L", "M", "N", "O", "P", "Q", "R", "S", "T", "U", "V", "W", "X", "Y", "Z">>
LowerLetters == <<"a", "b", "c", "d", "e", "f", "g", "h", "i", "j", "k", "l", "m", "n", "o", "p", "q", "r", "s", "t", "u", "v", "w", "x", "y", "z">>

\* str.lower() and str.upper(), character by character
LowerChar(c) == IF \E i \in 1..26 : UpperLetters[i] = c
                THEN LowerLetters[CHOOSE i \in 1..26 : UpperLetters[i] = c] ELSE c
UpperChar(c) == IF \E i \in 1..26 : LowerLetters[i] = c
                THEN UpperLetters[CHOOSE i \in 1..26 : LowerLetters[i] = c] ELSE c
Lower(s) == [i \in 1..Len(s) |-> LowerChar(s[i])]
Upper(s) == [i \in 1..Len(s) |-> UpperChar(s[i])]

\* str.strip()
RECURSIVE LStrip(_)
LStrip(s) == IF s # <<>> /\ Head(s) \in Whitespace THEN LStrip(Tail(s)) ELSE s
RECURSIVE RStrip(_)
RStrip(s) == IF s # <<>> /\ s[Len(s)] \in Whitespace
             THEN RStrip(SubSeq(s, 1, Len(s) - 1)) ELSE s
Strip(s) == RStrip(LStrip(s))

\* str.startswith(p), str.endswith(p)
StartsWith(s, p) == Len(p) <= Len(s) /\ SubSeq(s, 1, Len(p)) = p
EndsWith(s, p) == Len(p) <= Len(s) /\ SubSeq(s, Len(s) - Len(p) + 1, Len(s)) = p

\* str.split(sep) for a one-character sep: "".split("/") is [""]
RECURSIVE Split(_, _)
Split(s, sep) ==
    IF \E i \in 1..Len(s) : s[i] = sep
    THEN LET i == CHOOSE k \in 1..Len(s) : s[k] = sep /\ \A j \in 1..(k - 1) : s[j] # sep
         IN <<SubSeq(s, 1, i - 1)>> \o Split(SubSeq(s, i + 1, Len(s)), sep)
    ELSE <<s>>

\* str.split(): on runs of whitespace, no empty strings
RECURSIVE SplitWhitespace(_)
SplitWhitespace(s) ==
    LET t == LStrip(s)
    IN IF t = <<>> THEN <<>>
       ELSE IF \E i \in 1..Len(t) : t[i] \in Whitespace
       THEN LET i == CHOOSE k \in 1..Len(t) :
                        t[k] \in Whitespace /\ \A j \in 1..(k - 1) : t[j] \notin Whitespace
            IN <<SubSeq(t, 1, i - 1)>> \o SplitWhitespace(SubSeq(t, i + 1, Len(t)))
       ELSE <<t>>

\* sep.join(parts)
RECURSIVE Join(_, _)
Join(parts, sep) ==
    IF parts = <<>> THEN <<>>
    ELSE IF Len(parts) = 1 THEN parts[1]
    ELSE parts[1] \o sep \o Join(Tail(parts), sep)

\* int(s) of a string of decimal digits
ParseInt(s) ==
    LET RECURSIVE go(_, _)
        go(i, v) == IF i > Len(s) THEN v ELSE go(i + 1, 10 * v + DigitValue(s[i]))
    IN go(1, 0)

\* ------------------------------------------------- frames_to_segments
\* a faulty variant: sorted(frames), the set() forgotten
RECURSIVE SortedKeepingDuplicates(_)
SortedKeepingDuplicates(fs) ==
    IF fs = <<>> THEN <<>>
    ELSE LET i == CHOOSE k \in 1..Len(fs) : \A j \in 1..Len(fs) : fs[k] <= fs[j]
         IN <<fs[i]>> \o SortedKeepingDuplicates(
                [k \in 1..(Len(fs) - 1) |-> IF k < i THEN fs[k] ELSE fs[k + 1]])

\* frames = sorted(set(frames))
SortedFrames(fs) == SortedSet(Range(fs))

\* str(start) or f"{start}-{prev}"
Segment(start, prev) == IF start = prev THEN Str(start)
                        ELSE Str(start) \o <<"-">> \o Str(prev)

\* segments.append(...); singles += 1 / ranges += 1
Emit(acc, start, prev) ==
    [segments |-> Append(acc.segments, Segment(start, prev)),
     singles  |-> IF start = prev THEN acc.singles + 1 ELSE acc.singles,
     ranges   |-> IF start = prev THEN acc.ranges ELSE acc.ranges + 1]

\* the loop over frames[1:], then the flush of the last segment
RECURSIVE WalkFrames(_, _, _, _, _)
WalkFrames(fs, i, start, prev, acc) ==
    IF i > Len(fs) THEN Emit(acc, start, prev)
    ELSE IF fs[i] = prev + 1 THEN WalkFrames(fs, i + 1, start, fs[i], acc)
    ELSE WalkFrames(fs, i + 1, fs[i], fs[i], Emit(acc, start, prev))

frames_to_segments(fs) ==
    LET sorted == SortedFrames(fs)
        empty == [segments |-> <<>>, singles |-> 0, ranges |-> 0]
    IN IF sorted = <<>> THEN empty
       ELSE WalkFrames(sorted, 2, sorted[1], sorted[1], empty)

FrameLists == UNION {[1..n -> 0..MaxFrame] : n \in 0..MaxLen}

InitSegments ==
    /\ pc = "compress"
    /\ frames \in FrameLists
    /\ segments = <<>>
    /\ singles = 0
    /\ ranges = 0
    /\ MapIdle /\ LineIdle /\ XyIdle /\ xy_locations = <<>> /\ MainIdle /\ ScanIdle

Compress ==
    /\ pc = "compress"
    /\ LET r == frames_to_segments(frames)
       IN /\ segments' = r.segments
          /\ singles' = r.singles
          /\ ranges' = r.ranges
    /\ pc' = "compressed"
    /\ UNCHANGED <<frames, mapVars, lineVars, xyVars, xy_locations, mainVars, scanVars>>

NextSegments == Compress

SpecSegments == InitSegments /\ [][NextSegments]_vars

\* ------------------------------------------------------------ claim C1
\* the integers a segment stands for, ascending
Expand(seg) ==
    IF \E i \in 1..Len(seg) : seg[i] = "-"
    THEN LET d == CHOOSE i \in 1..Len(seg) : seg[i] = "-"
             lo == ParseInt(SubSeq(seg, 1, d - 1))
             hi == ParseInt(SubSeq(seg, d + 1, Len(seg)))
         IN [k \in 1..(hi - lo + 1) |-> lo + k - 1]
    ELSE <<ParseInt(seg)>>

RECURSIVE ExpandAll(_)
ExpandAll(segs) == IF segs = <<>> THEN <<>>
                   ELSE Expand(Head(segs)) \o ExpandAll(Tail(segs))

\* the maximal runs of consecutive integers of S, ascending, as <<lo, hi>>
MaximalRuns(S) ==
    LET starts == SortedSet({x \in S : x - 1 \notin S})
        ends == SortedSet({x \in S : x + 1 \notin S})
    IN [i \in 1..Len(starts) |-> <<starts[i], ends[i]>>]

\* C1: the segments are exactly the maximal runs of set(frames), ascending,
\* a run of one frame written as the frame and a longer run as start-end; the
\* counts count them; expanding the segments gives sorted(set(frames)), and
\* compressing the expansion gives the same segments; no frames, no segments.
C1_SegmentsAreMaximalRuns ==
    pc = "compressed" =>
        LET S == Range(frames)
            runs == MaximalRuns(S)
        IN /\ Len(segments) = Len(runs)
           /\ \A i \in 1..Len(runs) :
                 /\ Expand(segments[i]) =
                      [k \in 1..(runs[i][2] - runs[i][1] + 1) |-> runs[i][1] + k - 1]
                 /\ (\E k \in 1..Len(segments[i]) : segments[i][k] = "-")
                      <=> runs[i][1] < runs[i][2]
                 /\ segments[i] = IF runs[i][1] = runs[i][2] THEN Str(runs[i][1])
                                  ELSE Str(runs[i][1]) \o <<"-">> \o Str(runs[i][2])
           /\ singles = Cardinality({i \in 1..Len(runs) : runs[i][1] = runs[i][2]})
           /\ ranges = Cardinality({i \in 1..Len(runs) : runs[i][1] < runs[i][2]})
           /\ ExpandAll(segments) = SortedSet(S)
           /\ \A i \in 1..(Len(ExpandAll(segments)) - 1) :
                 ExpandAll(segments)[i] < ExpandAll(segments)[i + 1]
           /\ frames_to_segments(ExpandAll(segments)).segments = segments
           /\ (frames = <<>> => segments = <<>> /\ singles = 0 /\ ranges = 0)

C1_Witness ==
    /\ pc = "compressed"
    /\ \E i, j \in 1..Len(frames) : i < j /\ frames[i] = frames[j]
    /\ \E i, j \in 1..Len(frames) : i < j /\ frames[i] > frames[j]
    /\ singles >= 1
    /\ ranges >= 1
    /\ \E i \in 1..Len(segments) : Len(segments[i]) >= 4

\* ------------------------------------- baselight_subpath, map_to_xytech
FilesystemRoot == <<"b", "a", "s", "e", "l", "i", "g", "h", "t", "f", "i", "l", "e", "s", "y", "s", "t", "e", "m">>

baselight_subpath(p) ==
    LET parts == Split(Strip(p), "/")
    IN IF Len(parts) >= 3 /\ StartsWith(parts[2], FilesystemRoot)
       THEN <<"/">> \o Join(SubSeq(parts, 3, Len(parts)), <<"/">>)
       ELSE <<"/">> \o Join(SubSeq(parts, 2, Len(parts)), <<"/">>)

\* a faulty variant: the last matching location wins
RECURSIVE LastMatch(_, _)
LastMatch(p, locs) ==
    IF locs = <<>> THEN None
    ELSE IF EndsWith(locs[Len(locs)], baselight_subpath(p)) THEN locs[Len(locs)]
    ELSE LastMatch(p, SubSeq(locs, 1, Len(locs) - 1))

\* for loc in xy_locations: if loc.endswith(sub): return loc
RECURSIVE FirstMatch(_, _)
FirstMatch(s, locs) ==
    IF locs = <<>> THEN None
    ELSE IF EndsWith(Head(locs), s) THEN Head(locs)
    ELSE FirstMatch(s, Tail(locs))

map_to_xytech(p, locs) == FirstMatch(baselight_subpath(p), locs)

\* folder paths as a facility line can give them: no whitespace
PathComponents == {<<>>, <<"a">>, <<"b">>, <<"b", "a", "s", "e", "l", "i", "g", "h", "t">>, <<"b", "a", "s", "e", "l", "i", "g", "h", "t", "f", "i", "l", "e", "s", "y", "s", "t", "e", "m", "1">>}

RawPaths ==
    {Join(cs, <<"/">>) : cs \in UNION {[1..n -> PathComponents] : n \in 1..MaxParts}}

\* locations as parse_xytech_locations gives them: each begins with "/"
LocationPool == {<<"/", "b">>, <<"/", "a", "/", "b">>, <<"/", "x", "/", "a", "/", "b">>, <<"/", "x", "/", "b", "/">>}

LocationLists == UNION {[1..n -> LocationPool] : n \in 0..MaxLocs}

InitMap ==
    /\ pc = "map"
    /\ baselight_folder \in RawPaths
    /\ xy_locations \in LocationLists
    /\ sub = <<>>
    /\ mapped = None
    /\ SegIdle /\ LineIdle /\ XyIdle /\ MainIdle /\ ScanIdle

MapToXytech ==
    /\ pc = "map"
    /\ sub' = baselight_subpath(baselight_folder)
    /\ mapped' = map_to_xytech(baselight_folder, xy_locations)
    /\ pc' = "mapped"
    /\ UNCHANGED <<baselight_folder, xy_locations, segVars, lineVars, xyVars,
                   mainVars, scanVars>>

NextMap == MapToXytech

SpecMap == InitMap /\ [][NextMap]_vars

\* ------------------------------------------------------------ claim C3
\* s ends with the characters of p
IsSuffix(p, s) == \E k \in 0..Len(s) : s = SubSeq(s, 1, k) \o p

\* C3: the result is the first location, in list order, that ends with the
\* derived subpath, and None exactly when no location ends with it.
C3_FirstMatchWins ==
    pc = "mapped" =>
        LET hits == {i \in 1..Len(xy_locations) : IsSuffix(sub, xy_locations[i])}
        IN /\ mapped = None <=> hits = {}
           /\ hits # {} =>
                mapped = xy_locations[CHOOSE i \in hits : \A j \in hits : i <= j]

C3_Witness ==
    /\ pc = "mapped"
    /\ Len(xy_locations) = 2
    /\ IsSuffix(sub, xy_locations[1])
    /\ IsSuffix(sub, xy_locations[2])
    /\ Len(xy_locations[1]) < Len(xy_locations[2])
    /\ mapped = xy_locations[1]

\* ----------------------------------------------------------- claim C10
\* the components of a path, as split("/") gives them
Components(p) == Split(p, "/")

\* C10 as stated: with at least 3 segments and the second beginning with the
\* filesystem-root token the subpath is "/" and the segments from the third
\* on; otherwise only an empty first component is dropped, so no non-empty
\* component of the raw path is lost, and a path beginning with "/" is its
\* own subpath.
C10_SubpathAsStated ==
    pc = "mapped" =>
        LET parts == Components(baselight_folder)
        IN IF Len(parts) >= 3 /\ StartsWith(parts[2], FilesystemRoot)
           THEN sub = <<"/">> \o Join(SubSeq(parts, 3, Len(parts)), <<"/">>)
           ELSE /\ \A i \in 1..Len(parts) :
                      parts[i] # <<>> => \E j \in 1..Len(Components(sub)) :
                                             Components(sub)[j] = parts[i]
                /\ (baselight_folder # <<>> /\ Head(baselight_folder) = "/")
                      => sub = baselight_folder

\* ------------------------------------------------ parse_baselight_line
\* str.isdigit(): true of the decimal digits and of digits such as U+00B2
IsDigitChar(c) == IsDecimal(c) \/ c = "SUP2"
IsDigitString(tok) == tok # <<>> /\ \A i \in 1..Len(tok) : IsDigitChar(tok[i])

\* int(tok) raises ValueError unless every character is a decimal digit
IntRaises(tok) == tok = <<>> \/ \E i \in 1..Len(tok) : ~IsDecimal(tok[i])

\* re.match(r"(\d+)", tok).group(1), or <<>> when there is no match
RECURSIVE LeadingDigits(_)
LeadingDigits(tok) ==
    IF tok # <<>> /\ IsDecimal(Head(tok)) THEN <<Head(tok)>> \o LeadingDigits(Tail(tok))
    ELSE <<>>

\* the loop over tokens[1:]; raised is set when int() raises
RECURSIVE ParseTokens(_, _)
ParseTokens(toks, acc) ==
    IF toks = <<>> THEN [raised |-> FALSE, frames |-> acc]
    ELSE LET tok == Head(toks)
         IN IF IsDigitString(tok)
            THEN IF IntRaises(tok) THEN [raised |-> TRUE, frames |-> acc]
                 ELSE ParseTokens(Tail(toks), Append(acc, ParseInt(tok)))
            ELSE IF LeadingDigits(tok) # <<>>
                 THEN ParseTokens(Tail(toks), Append(acc, ParseInt(LeadingDigits(tok))))
                 ELSE ParseTokens(Tail(toks), acc)

parse_baselight_line(l) ==
    LET tokens == SplitWhitespace(l)
        r == ParseTokens(Tail(tokens), <<>>)
    IN [raised |-> r.raised, folder |-> tokens[1], frames |-> r.frames]

FrameTokens == {<<"7">>, <<"0", "0", "1", "0">>, <<"0", "0", "1", "0", ".", "d", "p", "x">>, <<"f", "r", "a", "m", "e">>, <<"x", "9">>, <<"-", "5">>, <<"1", "2", "a", "3">>,
                <<"1", "SUP2">>, <<"SUP2">>}

FolderTokens == {<<"/", "b", "a", "s", "e", "l", "i", "g", "h", "t", "f", "i", "l", "e", "s", "y", "s", "t", "e", "m", "1", "/", "a">>, <<"b">>}

Separators == {<<" ">>, <<" ", "\t">>}

\* non-blank trimmed lines
FacilityLines ==
    {Join(<<f>> \o toks, sep) :
        f \in FolderTokens,
        toks \in UNION {[1..n -> FrameTokens] : n \in 0..MaxTokens},
        sep \in Separators}

InitLine ==
    /\ pc = "parse"
    /\ line \in FacilityLines
    /\ folder = <<>>
    /\ parsed = <<>>
    /\ SegIdle /\ MapIdle /\ XyIdle /\ xy_locations = <<>> /\ MainIdle /\ ScanIdle

ParseLine ==
    /\ pc = "parse"
    /\ LET r == parse_baselight_line(line)
       IN \/ /\ ~r.raised
             /\ folder' = r.folder
             /\ parsed' = r.frames
             /\ pc' = "parsed"
          \/ /\ r.raised
             /\ pc' = "ValueError"
             /\ UNCHANGED <<folder, parsed>>
    /\ UNCHANGED <<line, segVars, mapVars, xyVars, xy_locations, mainVars, scanVars>>

NextLine == ParseLine

SpecLine == InitLine /\ [][NextLine]_vars

\* ------------------------------------------------------------ claim C9
\* what one token contributes, as the claim states it
RECURSIVE DigitRun(_)
DigitRun(tok) ==
    IF tok # <<>> /\ \E d \in 0..9 : Str(d) = <<Head(tok)>>
    THEN <<Head(tok)>> \o DigitRun(Tail(tok)) ELSE <<>>

RECURSIVE StatedFrames(_)
StatedFrames(toks) ==
    IF toks = <<>> THEN <<>>
    ELSE (IF DigitRun(Head(toks)) = <<>> THEN <<>>
          ELSE <<ParseInt(DigitRun(Head(toks)))>>) \o StatedFrames(Tail(toks))

\* C9 as stated: the folder is the first token; each later token gives, in
\* order, the value of its leading run of decimal digits if it has one and
\* nothing otherwise; no token is an error.
C9_ParseAsStated ==
    pc # "parse" =>
        /\ pc = "parsed"
        /\ folder = Head(SplitWhitespace(line))
        /\ parsed = StatedFrames(Tail(SplitWhitespace(line)))

\* ---------------------------------------------- parse_xytech_locations
S_location == <<"l", "o", "c", "a", "t", "i", "o", "n">>
S_notes == <<"n", "o", "t", "e", "s">>

\* a faulty variant: at "notes" collecting is switched off instead of the loop left
RECURSIVE XytechLoopResuming(_, _, _)
XytechLoopResuming(lines, in_locations, locs) ==
    IF lines = <<>> THEN locs
    ELSE LET l == Strip(Head(lines))
         IN IF l = <<>> THEN XytechLoopResuming(Tail(lines), in_locations, locs)
            ELSE IF StartsWith(Lower(l), S_location)
                 THEN XytechLoopResuming(Tail(lines), TRUE, locs)
            ELSE IF in_locations
                 THEN IF StartsWith(Lower(l), S_notes)
                      THEN XytechLoopResuming(Tail(lines), FALSE, locs)
                      ELSE IF StartsWith(l, <<"/">>)
                           THEN XytechLoopResuming(Tail(lines), TRUE, Append(locs, l))
                           ELSE XytechLoopResuming(Tail(lines), TRUE, locs)
            ELSE XytechLoopResuming(Tail(lines), FALSE, locs)

parse_xytech_locations_resuming(lines) == XytechLoopResuming(lines, FALSE, <<>>)

\* for raw in path.read_text(...).splitlines(): ...
RECURSIVE XytechLoop(_, _, _)
XytechLoop(lines, in_locations, locs) ==
    IF lines = <<>> THEN locs
    ELSE LET l == Strip(Head(lines))
         IN IF l = <<>> THEN XytechLoop(Tail(lines), in_locations, locs)
            ELSE IF StartsWith(Lower(l), S_location)
                 THEN XytechLoop(Tail(lines), TRUE, locs)
            ELSE IF in_locations
                 THEN IF StartsWith(Lower(l), S_notes)
                      THEN locs
                      ELSE IF StartsWith(l, <<"/">>)
                           THEN XytechLoop(Tail(lines), TRUE, Append(locs, l))
                           ELSE XytechLoop(Tail(lines), TRUE, locs)
            ELSE XytechLoop(Tail(lines), FALSE, locs)

parse_xytech_locations(lines) == XytechLoop(lines, FALSE, <<>>)

XytechLinePool ==
    {<<>>, <<" ", " ">>, <<"L", "o", "c", "a", "t", "i", "o", "n", ":">>, <<" ", "L", "O", "C", "A", "T", "I", "O", "N">>, <<"N", "o", "t", "e", "s">>, <<" ", "n", "o", "t", "e", "s", ":", " ", "x">>,
     <<"/", "a">>, <<" ", "/", "b", " ">>, <<"x", "/", "a">>}

XytechTexts == UNION {[1..n -> XytechLinePool] : n \in 0..MaxXyLines}

InitXytech ==
    /\ pc = "locations"
    /\ xytech_text \in XytechTexts
    /\ locations = <<>>
    /\ SegIdle /\ MapIdle /\ LineIdle /\ xy_locations = <<>> /\ MainIdle /\ ScanIdle

ParseXytech ==
    /\ pc = "locations"
    /\ locations' = parse_xytech_locations(xytech_text)
    /\ pc' = "located"
    /\ UNCHANGED <<xytech_text, segVars, mapVars, lineVars, xy_locations,
                   mainVars, scanVars>>

NextXytech == ParseXytech

SpecXytech == InitXytech /\ [][NextXytech]_vars

\* ------------------------------------------------------------ claim C7
IsLocationHeader(l) == StartsWith(Lower(Strip(l)), S_location)
IsNotesLine(l) == StartsWith(Lower(Strip(l)), S_notes)
IsPathLine(l) == Strip(l) # <<>> /\ Head(Strip(l)) = "/"

\* the trimmed path lines among lines lo..hi, in order
RECURSIVE PathLinesBetween(_, _, _)
PathLinesBetween(lines, lo, hi) ==
    IF lo > hi THEN <<>>
    ELSE (IF IsPathLine(lines[lo]) THEN <<Strip(lines[lo])>> ELSE <<>>)
         \o PathLinesBetween(lines, lo + 1, hi)

\* C7: the result is the trimmed lines beginning with "/" after the first
\* "location" line and before the first "notes" line that follows it, in file
\* order, duplicates kept; nothing before the header, nothing after that
\* "notes" line, and the empty list when there is no header.
C7_LocationsBetweenHeaderAndNotes ==
    pc = "located" =>
        LET n == Len(xytech_text)
            hs == {i \in 1..n : IsLocationHeader(xytech_text[i])}
        IN IF hs = {} THEN locations = <<>>
           ELSE LET h == CHOOSE i \in hs : \A j \in hs : i <= j
                    ns == {i \in (h + 1)..n : IsNotesLine(xytech_text[i])}
                    stop == IF ns = {} THEN n + 1
                            ELSE CHOOSE i \in ns : \A j \in ns : i <= j
                IN locations = PathLinesBetween(xytech_text, h + 1, stop - 1)

C7_Witness ==
    /\ pc = "located"
    /\ Len(xytech_text) = 4
    /\ IsLocationHeader(xytech_text[1])
    /\ IsNotesLine(xytech_text[2])
    /\ IsLocationHeader(xytech_text[3])
    /\ IsPathLine(xytech_text[4])
    /\ locations = <<>>

\* ----------------------------------------------------------------- main
\* a faulty variant: the "X " tag forgotten
OutFolderUntagged(c, b) == IF c # None /\ c # <<>> THEN c ELSE b

\* out_folder = corrected if corrected else f"X {b_folder}"
OutFolder(c, b) == IF c # None /\ c # <<>> THEN c ELSE <<"X", " ">> \o b

\* a faulty variant: the folder appended at every line
RecordFolderAlways(order, byFolder, key) == Append(order, key)

\* if out_folder not in frames_by_folder: folder_order.append(out_folder)
RecordFolder(order, byFolder, key) ==
    IF key \in DOMAIN byFolder THEN order ELSE Append(order, key)

\* a faulty variant: the line's frames replace the folder's frames
ReplaceFrames(old, new) == new

\* frames_by_folder[out_folder].extend(frames)
ExtendFrames(old, new) == old \o new

HeaderRow == <<<<"P", "a", "t", "h">>, <<"F", "r", "a", "m", "e", "s">>, <<"M", "a", "r", "k">>>>

\* for seg in segments: writer.writerow([folder, seg, ""])
FolderRows(f, segs) == [i \in 1..Len(segs) |-> <<f, segs[i], <<>> >>]

\* for folder in folder_order: the rows written
RECURSIVE ReportRows(_, _)
ReportRows(order, byFolder) ==
    IF order = <<>> THEN <<>>
    ELSE FolderRows(Head(order), frames_to_segments(byFolder[Head(order)]).segments)
         \o ReportRows(Tail(order), byFolder)

\* for folder in folder_order: the "Individual: .. Ranges: .." lines printed
ReportSummary(order, byFolder) ==
    [i \in 1..Len(order) |->
        LET r == frames_to_segments(byFolder[order[i]])
        IN [folder |-> order[i], individual |-> r.singles, ranges |-> r.ranges]]

ExampleLine == <<"/", "b", "a", "s", "e", "l", "i", "g", "h", "t", "f", "i", "l", "e", "s", "y", "s", "t", "e", "m", "1", "/", "s", "h", "o", "w", "A", "/", "s", "e", "q", "0", "1", " ", "0", "0", "0", "1", " ", "0", "0", "0", "2", " ", "0", "0", "0", "3", " ", "0", "0", "0", "5", ".", "d", "p", "x">>

FacilityLinePool ==
    {ExampleLine,
     <<"/", "b", "a", "s", "e", "l", "i", "g", "h", "t", "f", "i", "l", "e", "s", "y", "s", "t", "e", "m", "1", "/", "s", "h", "o", "w", "A", "/", "s", "e", "q", "0", "1", " ", "4", " ", "3", " ", "f", "r", "a", "m", "e">>,
     <<"/", "b", "a", "s", "e", "l", "i", "g", "h", "t", "f", "i", "l", "e", "s", "y", "s", "t", "e", "m", "2", "/", "s", "h", "o", "w", "B", "/", "s", "e", "q", "0", "2", " ", " ", "1", "0", " ", "9", " ", "9">>,
     <<"s", "h", "o", "w", "B", "/", "s", "e", "q", "0", "2", " ", "1", "1">>,
     <<"/", "b", "a", "s", "e", "l", "i", "g", "h", "t", "f", "i", "l", "e", "s", "y", "s", "t", "e", "m", "1", "/", "s", "h", "o", "w", "C">>,
     <<" ", " ">>,
     <<"/", "s", " ", "1", "SUP2">>}

FacilityTexts == UNION {[1..n -> FacilityLinePool] : n \in 0..MaxLines}

ExampleXytech == <<<<"L", "o", "c", "a", "t", "i", "o", "n">>, <<"/", "p", "r", "o", "j", "e", "c", "t", "s", "/", "s", "h", "o", "w", "A", "/", "s", "e", "q", "0", "1">>, <<"N", "o", "t", "e", "s">>>>

XytechFiles ==
    {ExampleXytech,
     <<<<"X", "y", "t", "e", "c", "h", " ", "W", "o", "r", "k", "o", "r", "d", "e", "r">>, <<>>, <<"L", "o", "c", "a", "t", "i", "o", "n", ":">>, <<"/", "h", "p", "s", "a", "n", "s", "1", "3", "/", "p", "r", "o", "j", "e", "c", "t", "s", "/", "s", "h", "o", "w", "B", "/", "s", "e", "q", "0", "2">>,
       <<"/", "p", "r", "o", "j", "e", "c", "t", "s", "/", "s", "h", "o", "w", "A", "/", "s", "e", "q", "0", "1">>, <<"/", "p", "r", "o", "j", "e", "c", "t", "s", "/", "s", "h", "o", "w", "B", "/", "s", "e", "q", "0", "2">>, <<"N", "o", "t", "e", "s", ":">>, <<"/", "i", "g", "n", "o", "r", "e", "d">>>>,
     <<<<"/", "p", "r", "o", "j", "e", "c", "t", "s", "/", "s", "h", "o", "w", "A", "/", "s", "e", "q", "0", "1">>>>}

InitMain ==
    /\ pc = "main"
    /\ xytech_text \in XytechFiles
    /\ baselight_text \in FacilityTexts
    /\ locations = <<>>
    /\ xy_locations = <<>>
    /\ next_line = 1
    /\ b_folder = <<>> /\ corrected = None /\ out_folder = <<>>
    /\ frames_by_folder = <<>> /\ folder_order = <<>>
    /\ baselight_lines_read = 0
    /\ csv_rows = <<>> /\ csv_rows_written = 0 /\ console = <<>>
    /\ SegIdle /\ MapIdle /\ LineIdle /\ ScanIdle

\* xy_locations = parse_xytech_locations(XYTECH_FILE)
ReadLocations ==
    /\ pc = "main"
    /\ xy_locations' = parse_xytech_locations(xytech_text)
    /\ pc' = "read"
    /\ UNCHANGED <<segVars, mapVars, lineVars, xyVars, mainVars, scanVars>>

\* if not line: continue
SkipBlankLine ==
    /\ pc = "read"
    /\ next_line <= Len(baselight_text)
    /\ Strip(baselight_text[next_line]) = <<>>
    /\ next_line' = next_line + 1
    /\ UNCHANGED <<pc, baselight_text, b_folder, corrected, out_folder,
                   frames_by_folder, folder_order, baselight_lines_read,
                   csv_rows, csv_rows_written, console,
                   segVars, mapVars, lineVars, xyVars, xy_locations, scanVars>>

\* one pass of the loop body over a non-blank line
AggregateLine ==
    /\ pc = "read"
    /\ next_line <= Len(baselight_text)
    /\ Strip(baselight_text[next_line]) # <<>>
    /\ LET r == parse_baselight_line(Strip(baselight_text[next_line]))
           c == map_to_xytech(r.folder, xy_locations)
           key == OutFolder(c, r.folder)
       IN /\ ~r.raised
          /\ b_folder' = r.folder
          /\ corrected' = c
          /\ out_folder' = key
          /\ folder_order' = RecordFolder(folder_order, frames_by_folder, key)
          /\ frames_by_folder' =
                IF key \in DOMAIN frames_by_folder
                THEN [frames_by_folder EXCEPT ![key] = ExtendFrames(@, r.frames)]
                ELSE (key :> ExtendFrames(<<>>, r.frames)) @@ frames_by_folder
    /\ baselight_lines_read' = baselight_lines_read + 1
    /\ next_line' = next_line + 1
    /\ UNCHANGED <<pc, baselight_text, csv_rows, csv_rows_written, console,
                   segVars, mapVars, lineVars, xyVars, xy_locations, scanVars>>

\* int(tok) raises in parse_baselight_line: the run ends, no report written
LineRaises ==
    /\ pc = "read"
    /\ next_line <= Len(baselight_text)
    /\ Strip(baselight_text[next_line]) # <<>>
    /\ parse_baselight_line(Strip(baselight_text[next_line])).raised
    /\ baselight_lines_read' = baselight_lines_read + 1
    /\ pc' = "ValueError"
    /\ UNCHANGED <<baselight_text, next_line, b_folder, corrected, out_folder,
                   frames_by_folder, folder_order, csv_rows, csv_rows_written,
                   console, segVars, mapVars, lineVars, xyVars, xy_locations, scanVars>>

\* the report written and the summary printed; next is the scan of MARKED_CSV
WriteReport ==
    /\ pc = "read"
    /\ next_line > Len(baselight_text)
    /\ LET rows == ReportRows(folder_order, frames_by_folder)
       IN /\ csv_rows' = <<HeaderRow>> \o rows
          /\ csv_rows_written' = Len(rows)
    /\ console' = ReportSummary(folder_order, frames_by_folder)
    /\ pc' = "scan"
    /\ UNCHANGED <<baselight_text, next_line, b_folder, corrected, out_folder,
                   frames_by_folder, folder_order, baselight_lines_read,
                   segVars, mapVars, lineVars, xyVars, xy_locations, scanVars>>

NextMain == ReadLocations \/ SkipBlankLine \/ AggregateLine \/ LineRaises \/ WriteReport

SpecMain == InitMain /\ [][NextMain]_vars

\* ------------------------------------------------- claims C2, C4 and C8
\* the non-blank facility lines the loop has been through, trimmed, in order
RECURSIVE NonBlank(_)
NonBlank(lines) ==
    IF lines = <<>> THEN <<>>
    ELSE (IF Strip(Head(lines)) = <<>> THEN <<>> ELSE <<Strip(Head(lines))>>)
         \o NonBlank(Tail(lines))

Processed == NonBlank(SubSeq(baselight_text, 1, next_line - 1))

\* a line's folder has a location ending with its derived subpath
Matched(l) ==
    \E i \in 1..Len(xy_locations) :
        IsSuffix(baselight_subpath(parse_baselight_line(l).folder), xy_locations[i])

\* the key a line's frames belong under, as the claims state it
KeyOfLine(l) ==
    IF Matched(l) THEN map_to_xytech(parse_baselight_line(l).folder, xy_locations)
    ELSE <<"X", " ">> \o parse_baselight_line(l).folder

\* s without its repetitions, first occurrences kept in order
RECURSIVE FirstSeen(_, _)
FirstSeen(s, seen) ==
    IF s = <<>> THEN <<>>
    ELSE IF Head(s) \in seen THEN FirstSeen(Tail(s), seen)
    ELSE <<Head(s)>> \o FirstSeen(Tail(s), seen \cup {Head(s)})

\* all the frames of the processed lines whose key is k
FramesOfKey(k) ==
    UNION {Range(parse_baselight_line(Processed[i]).frames) :
              i \in {j \in 1..Len(Processed) : KeyOfLine(Processed[j]) = k}}

DataRows == Tail(csv_rows)

\* the rows of the report whose Path is k, in report order
RowsOfKey(k) == SelectSeq(DataRows, LAMBDA r : r[1] = k)

InMain == pc \in {"read", "scan", "ValueError"}

\* C2: after any prefix of the lines folder_order holds each key once, holds
\* exactly the keys of frames_by_folder, in the order of the first line that
\* gave each key; the report's rows come one block per key, the blocks in that
\* order.
C2_FirstSeenOrder ==
    InMain =>
        /\ folder_order =
              FirstSeen([i \in 1..Len(Processed) |-> KeyOfLine(Processed[i])], {})
        /\ \A i, j \in 1..Len(folder_order) :
              i # j => folder_order[i] # folder_order[j]
        /\ Range(folder_order) = DOMAIN frames_by_folder
        /\ pc = "scan" =>
              /\ \A i \in 1..Len(DataRows) : DataRows[i][1] \in Range(folder_order)
              /\ \A i, j \in 1..Len(DataRows) :
                    i < j =>
                      \E a, b \in 1..Len(folder_order) :
                          /\ a <= b
                          /\ folder_order[a] = DataRows[i][1]
                          /\ folder_order[b] = DataRows[j][1]

KeyA == <<"/", "p", "r", "o", "j", "e", "c", "t", "s", "/", "s", "h", "o", "w", "A", "/", "s", "e", "q", "0", "1">>
KeyB == <<"/", "h", "p", "s", "a", "n", "s", "1", "3", "/", "p", "r", "o", "j", "e", "c", "t", "s", "/", "s", "h", "o", "w", "B", "/", "s", "e", "q", "0", "2">>

C2_Witness ==
    /\ pc = "scan"
    /\ Len(Processed) = 3
    /\ folder_order = <<KeyA, KeyB>>
    /\ KeyOfLine(Processed[3]) = KeyA
    /\ \E i \in 1..Len(DataRows) : DataRows[i][1] = KeyB

\* C4: a line whose folder matches no location is keyed "X " and its raw
\* folder; no key of an unmatched folder is a key of a matched one, and a
\* key's frame list holds the frames of the lines of that key only.
C4_SentinelKey ==
    InMain =>
        /\ \A i \in 1..Len(Processed) :
              LET r == parse_baselight_line(Processed[i])
              IN ~Matched(Processed[i]) =>
                    /\ (<<"X", " ">> \o r.folder) \in DOMAIN frames_by_folder
                    /\ Range(r.frames) \subseteq
                          Range(frames_by_folder[<<"X", " ">> \o r.folder])
        /\ (Processed # <<>> /\ ~Matched(Processed[Len(Processed)])) =>
              out_folder = <<"X", " ">> \o b_folder
        /\ \A i, j \in 1..Len(Processed) :
              (Matched(Processed[i]) /\ ~Matched(Processed[j])) =>
                  KeyOfLine(Processed[i]) # KeyOfLine(Processed[j])
        /\ \A k \in DOMAIN frames_by_folder :
              Range(frames_by_folder[k]) = FramesOfKey(k)

C4_Witness ==
    /\ pc = "scan"
    /\ \E i, j \in 1..Len(Processed) :
          /\ Matched(Processed[i])
          /\ ~Matched(Processed[j])
          /\ parse_baselight_line(Processed[j]).frames # <<>>
    /\ \E k \in DOMAIN frames_by_folder :
          /\ StartsWith(k, <<"X", " ", "/">>)
          /\ frames_by_folder[k] # <<>>

\* the segments of a set of frames, written from its maximal runs
RunSegments(S) ==
    LET runs == MaximalRuns(S)
    IN [i \in 1..Len(runs) |->
           IF runs[i][1] = runs[i][2] THEN Str(runs[i][1])
           ELSE Str(runs[i][1]) \o <<"-">> \o Str(runs[i][2])]

\* C8: once the report is written, the rows of a key are the segments of
\* the union of the frames of all the lines of that key, ascending, one row
\* per segment, the Mark column blank (so they depend on that set alone, not
\* on the order or repetition of lines and frames); the example line gives
\* exactly the rows 1-3 and 5.
C8_GlobalAggregation ==
    pc = "scan" =>
        /\ csv_rows[1] = HeaderRow
        /\ csv_rows_written = Len(DataRows)
        /\ \A i \in 1..Len(DataRows) :
              DataRows[i][1] \in Range(folder_order) /\ DataRows[i][3] = <<>>
        /\ \A k \in Range(folder_order) :
              [i \in 1..Len(RowsOfKey(k)) |-> RowsOfKey(k)[i][2]]
                  = RunSegments(FramesOfKey(k))
        /\ (xytech_text = ExampleXytech /\ baselight_text = <<ExampleLine>>) =>
              DataRows = << <<KeyA, <<"1", "-", "3">>, <<>> >>, <<KeyA, <<"5">>, <<>> >> >>

C8_Witness ==
    /\ pc = "scan"
    /\ Len(Processed) = 2
    /\ Processed[1] = ExampleLine
    /\ KeyOfLine(Processed[2]) = KeyA
    /\ DataRows = << <<KeyA, <<"1", "-", "5">>, <<>> >> >>

\* ----------------------- print_rows_with_x_third_col and check_x.py
\* what is printed: kind, and the line number and row where there is one
Out(kind, n, row) == [kind |-> kind, line_no |-> n, row |-> row]

\* a faulty variant: the third column compared with "X" as it stands
IsMarkedExactly(row) == Len(row) >= 3 /\ row[3] = <<"X">>

\* len(row) >= 3 and row[2].strip().upper() == "X"
IsMarked(row) == Len(row) >= 3 /\ Upper(Strip(row[3])) = <<"X">>

\* the rows csv.reader gives for a line of the marked file; [] for a blank line
MarkedRowPool ==
    {<<>>,
     <<<<"p">>, <<"1">>>>,
     <<<<"p">>, <<"1">>, <<>> >>,
     <<<<"p">>, <<"1">>, <<"X">>>>,
     <<<<"p">>, <<"1">>, <<"x">>>>,
     <<<<"p">>, <<"1">>, <<" ", "x", "\t">> >>,
     <<<<"p">>, <<"1">>, <<"X", "X">>>>,
     <<<<"p">>, <<"1">>, <<"X">>, <<"x">>>>,
     <<<<"p">>, <<"1">>, <<"a">>, <<"X">>>>}

MarkedFiles ==
    {<<>>} \cup {<<HeaderRow>> \o rows :
                    rows \in UNION {[1..n -> MarkedRowPool] : n \in 0..MaxRows}}

InitScan ==
    /\ pc = "scan"
    /\ scanner \in {"main", "check_x"}
    /\ marked_exists \in BOOLEAN
    /\ marked_rows \in (IF marked_exists THEN MarkedFiles ELSE {<<>>})
    /\ reader = <<>>
    /\ header = None
    /\ line_no = 0
    /\ found = FALSE
    /\ printed = <<>>
    /\ SegIdle /\ MapIdle /\ LineIdle /\ XyIdle /\ xy_locations = <<>> /\ MainIdle

scanRest == <<segVars, mapVars, lineVars, xyVars, xy_locations, mainVars>>

\* print_rows_with_x_third_col: if not csv_path.exists(): print, print, return
ReportMissing ==
    /\ pc = "scan"
    /\ scanner = "main"
    /\ ~marked_exists
    /\ printed' = <<Out("not_found", 0, <<>>), Out("hint", 0, <<>>)>>
    /\ pc' = "done"
    /\ UNCHANGED <<scanner, marked_exists, marked_rows, reader, header, line_no,
                   found, scanRest>>

\* check_x.py: open(FILENAME) of a file that is not there
OpenRaises ==
    /\ pc = "scan"
    /\ scanner = "check_x"
    /\ ~marked_exists
    /\ pc' = "FileNotFoundError"
    /\ UNCHANGED <<scanVars, scanRest>>

\* open; header = next(reader, None); the banner and the header printed
OpenMarked ==
    /\ pc = "scan"
    /\ marked_exists
    /\ header' = IF marked_rows = <<>> THEN None ELSE Head(marked_rows)
    /\ reader' = IF marked_rows = <<>> THEN <<>> ELSE Tail(marked_rows)
    /\ printed' = <<Out("banner", 0, <<>>), Out("header", 0, header')>>
    /\ found' = FALSE
    /\ line_no' = 2
    /\ pc' = "rows"
    /\ UNCHANGED <<scanner, marked_exists, marked_rows, scanRest>>

\* one pass of: for line_no, row in enumerate(reader, start=2)
ScanRow ==
    /\ pc = "rows"
    /\ reader # <<>>
    /\ LET row == Head(reader)
       IN IF IsMarked(row)
          THEN /\ printed' = Append(printed, Out("line", line_no, row))
               /\ found' = TRUE
          ELSE UNCHANGED <<printed, found>>
    /\ reader' = Tail(reader)
    /\ line_no' = line_no + 1
    /\ UNCHANGED <<pc, scanner, marked_exists, marked_rows, header, scanRest>>

\* the reader exhausted: if not found: print("(No X rows found)")
EndScan ==
    /\ pc = "rows"
    /\ reader = <<>>
    /\ printed' = IF found THEN printed
                  ELSE Append(printed, Out("none_found", 0, <<>>))
    /\ pc' = "done"
    /\ UNCHANGED <<scanner, marked_exists, marked_rows, reader, header, line_no,
                   found, scanRest>>

NextScan == ReportMissing \/ OpenRaises \/ OpenMarked \/ ScanRow \/ EndScan

SpecScan == InitScan /\ [][NextScan]_vars

\* ----------------------------------------------------- claims C5 and C6
Kinds(out) == {out[i].kind : i \in 1..Len(out)}

\* C5 as stated: with the marked file missing, either scanner says so on the
\* console and ends normally, having scanned no row.
C5_MissingFileNotFatal ==
    (~marked_exists /\ pc # "scan") =>
        /\ pc = "done"
        /\ "not_found" \in Kinds(printed)
        /\ "line" \notin Kinds(printed)

\* the data rows of the marked file: those after the header
MarkedData == IF marked_rows = <<>> THEN <<>> ELSE Tail(marked_rows)

\* the k-th data row is to be reported
ToReport(k) ==
    /\ Len(MarkedData[k]) >= 3
    /\ Upper(Strip(MarkedData[k][3])) = <<"X">>

====
